---- MODULE Spec2Model ----
(***************************************************************************)
(* Model of drivers/infiniband/hw/hfi1/intr.c: the link up/down handler    *)
(* handle_linkup_change with its helpers set_mgmt_allowed,                 *)
(* add_full_mgmt_pkey and signal_ib_event, and the user-context interrupt  *)
(* handler handle_user_interrupt.                                          *)
(*                                                                         *)
(* handle_linkup_change is modelled statement by statement: pc is the      *)
(* statement the (serial, single) caller is about to execute, so that the  *)
(* intermediate states inside one transition are states of the model.      *)
(* Calls of functions that live outside intr.c are appended to trace, each *)
(* with the value ppd->linkup had when the call was made.                  *)
(***************************************************************************)
EXTENDS Integers, Sequences, FiniteSets, TLC

(* ------------------------------ bounds --------------------------------- *)
\* raw values a status CSR may return: 0..MaxCsr
MaxCsr == 1
\* the bits above MGMT_ALLOWED_SHIFT of a GENERAL_CONFIG frame: 0..MaxFrameHi
MaxFrameHi == 2
\* the bits below MGMT_ALLOWED_SHIFT of a GENERAL_CONFIG frame: 0..MaxFrameLo
MaxFrameLo == 1
\* values of the linkup argument: 0..MaxArg
MaxArg == 2
\* operational VL counts the fabric manager may configure: 1..MaxVls
MaxVls == 1
\* concurrent callers of handle_user_interrupt: 1..NumIrq
NumIrq == 2
\* bits of the in-use bitmap that are modelled: 0..MaxSubctxt-1
MaxSubctxt == 1
\* urgent events a run may count (rcd->urgent stays below 2^32)
MaxUrgent == 1
\* times a run lets a consumer set WAITING_RCV
MaxPolls == 2

(* -------------------------- program constants -------------------------- *)
LINK_UP_DELAY == 500
\* common.h: the full management partition key, 0xFFFF
FULL_MGMT_P_KEY == 65535
\* common.h: the limited management partition key, 0x7FFF
LIM_MGMT_P_KEY == 32767
\* chip.h: bit position and width mask of MgmtAllowed in GENERAL_CONFIG
MGMT_ALLOWED_SHIFT == 23
MGMT_ALLOWED_MASK == 1
\* chip.h: neighbor node types
NEIGHBOR_TYPE_HFI == 0
\* chip_registers.h: value masks of the remote status CSRs
DC_DC8051_STS_REMOTE_NODE_TYPE_VAL_MASK == 3
DC_DC8051_STS_REMOTE_PORT_NO_VAL_SMASK == 255
DC_DC8051_STS_LOCAL_FM_SECURITY_DISABLED_MASK == 1
\* chip.h: dd->icode of the functional simulator
ICODE_FUNCTIONAL_SIMULATOR == 3
\* opa_port_info.h / hfi.h
OPA_LINKDOWN_REASON_NONE == 0
OPA_PI_MASK_OFFLINE_REASON == 15
\* hfi.h: freeze reasons
FREEZE_SELF == 2
FREEZE_LINK_DOWN == 4

(* ------------------------------ state ---------------------------------- *)
VARIABLES
    \* handle_linkup_change: position and argument of the running call
    pc, linkup_arg,
    \* set_mgmt_allowed: the local variable frame (0 outside its scope)
    frame,
    \* struct hfi1_pportdata (ppd = &dd->pport[0])
    linkup, neighbor_guid, neighbor_type, neighbor_port_number,
    neighbor_fm_security, mgmt_allowed, pkeys, offline_disabled_reason,
    actual_vls_operational, neighbor_normal,
    \* ppd->port, the 1-based port number of pport[0]
    port,
    \* struct hfi1_devdata and the module parameter quick_linkup
    flags, quick_linkup, icode, vau, vcu, vl15_init,
    \* the user-visible event bits of the port (hfi1_set_uevent_bits)
    uevent_bits,
    \* calls made to functions outside intr.c by the running (or last) call
    trace,
    \* events handed to ib_dispatch_event by the running (or last) call
    dispatched,
    \* dd->uctxt_lock: 0 when free, else the caller that holds it
    uctxt_lock,
    \* handle_user_interrupt: position of each concurrent caller
    irq_pc,
    \* struct hfi1_ctxtdata (rcd)
    in_use_ctxts, event_flags, urgent,
    \* the receive-available interrupt enable of the context (hfi1_rcvctrl)
    rcvctrl_intravail,
    \* calls made to functions outside intr.c by each caller's running call
    irq_trace,
    \* what each caller found in rcd when it took the lock
    irq_entry,
    \* per caller: whether its CPU has local interrupts enabled, and the
    \* local variable flags (TRUE until spin_lock_irqsave writes it)
    local_irq, irq_flags,
    \* per caller: local_irq as it was when the running (or last) call began
    irq_on_entry,
    \* counts over the whole run, per flag ("rcv", "urg"): times a consumer
    \* set the flag, and wake_up_interruptible calls of that flag's branch
    polls, wakes,
    \* count over the whole run of hfi1_rcvctrl(INTRAVAIL_DIS) calls
    disables

link_vars == <<pc, linkup_arg, frame, linkup, neighbor_guid, neighbor_type,
               neighbor_port_number, neighbor_fm_security, mgmt_allowed,
               pkeys, offline_disabled_reason, actual_vls_operational,
               neighbor_normal, port, flags, quick_linkup, icode, vau, vcu,
               vl15_init, uevent_bits, trace, dispatched>>

\* the fields of the port and of the device that intr.c reads or writes
port_state == <<linkup, neighbor_guid, neighbor_type, neighbor_port_number,
                neighbor_fm_security, mgmt_allowed, pkeys,
                offline_disabled_reason, actual_vls_operational,
                neighbor_normal, port, flags, quick_linkup, icode, vau, vcu,
                vl15_init, uevent_bits>>

\* the interrupt state of the callers' CPUs
irq_cpu == <<local_irq, irq_flags, irq_on_entry>>

\* the counts kept over the whole run
irq_counts == <<polls, wakes, disables>>

irq_vars == <<uctxt_lock, irq_pc, in_use_ctxts, event_flags, urgent,
              rcvctrl_intravail, irq_trace, irq_entry, irq_cpu, irq_counts>>

vars == <<link_vars, irq_vars>>

(* ----------------------- C integer operators --------------------------- *)
RECURSIVE BitAnd(_, _)
BitAnd(a, b) ==
    IF a = 0 \/ b = 0 THEN 0
    ELSE (IF a % 2 = 1 /\ b % 2 = 1 THEN 1 ELSE 0)
         + 2 * BitAnd(a \div 2, b \div 2)

RECURSIVE BitXor(_, _)
BitXor(a, b) ==
    IF a = 0 THEN b
    ELSE IF b = 0 THEN a
    ELSE (IF a % 2 = b % 2 THEN 0 ELSE 1) + 2 * BitXor(a \div 2, b \div 2)

RECURSIVE BitOr(_, _)
BitOr(a, b) ==
    IF a = 0 THEN b
    ELSE IF b = 0 THEN a
    ELSE (IF a % 2 = 1 \/ b % 2 = 1 THEN 1 ELSE 0)
         + 2 * BitOr(a \div 2, b \div 2)

\* C's !x and !!x
LNot(x) == IF x = 0 THEN 1 ELSE 0
BangBang(x) == LNot(LNot(x))

\* x >> n
Shr(x, n) == x \div (2 ^ n)

(* --------------------------- input domains ----------------------------- *)
CsrVals == 0 .. MaxCsr
FrameVals == { hi * (2 ^ (MGMT_ALLOWED_SHIFT + 1)) + b * (2 ^ MGMT_ALLOWED_SHIFT) + lo :
               hi \in 0 .. MaxFrameHi, b \in 0 .. 1, lo \in 0 .. MaxFrameLo }
ArgVals == 0 .. MaxArg
Callers == 1 .. NumIrq
Subctxts == 0 .. (MaxSubctxt - 1)

(* ------------------------- recording of calls -------------------------- *)
\* one call of a function outside intr.c, with ppd->linkup as it is then
Call(fn, a) == [fn |-> fn, arg |-> a, linkup |-> linkup]

\* the positions (1-based) of the calls of fn in a trace
CallsOf(t, fn) == { i \in 1 .. Len(t) : t[i].fn = fn }

(* --------------------------- program order ----------------------------- *)
\* mutant of up_order: the link-up flag is set before the management key is
\* installed
up_order_linkup_first ==
    << "verify_cap", "read_csr", "udelay", "set_mgmt", "set_linkup",
       "if_mgmt", "pkey_write", "pkey_push", "pkey_event",
       "set_odr", "widths" >>

\* mutant of up_order: the link widths are queried before the link-up flag
\* is set
up_order_widths_early ==
    << "verify_cap", "read_csr", "udelay", "set_mgmt", "if_mgmt",
       "pkey_write", "pkey_push", "pkey_event",
       "widths", "set_linkup", "set_odr" >>

\* the statements of the linkup branch, lines 102-142, in program order
up_order ==
    << "verify_cap", "read_csr", "udelay", "set_mgmt", "if_mgmt",
       "pkey_write", "pkey_push", "pkey_event",
       "set_linkup", "set_odr", "widths" >>

\* mutant of down_order: the freeze is started before ppd->linkup is cleared
down_order_freeze_first ==
    << "freeze", "clr_linkup", "clr_vls", "reset_credits", "uevent",
       "clr_nn", "signal" >>

\* the statements of the link down branch, lines 146-163, in program order
down_order ==
    << "clr_linkup", "clr_vls", "reset_credits", "freeze", "uevent",
       "clr_nn", "signal" >>

\* the statements of add_full_mgmt_pkey, lines 42-47
PkeySteps == { "pkey_write", "pkey_push", "pkey_event" }

Min(S) == CHOOSE x \in S : \A y \in S : x <= y

\* the statement executed after statement p of order, those in skip left
\* out; "idle" when the handler returns
After(order, p, skip) ==
    LET i == CHOOSE k \in 1 .. Len(order) : order[k] = p
        rest == { j \in (i + 1) .. Len(order) : order[j] \notin skip }
    IN  IF rest = {} THEN "idle" ELSE order[Min(rest)]

(* ------------------------------ helpers -------------------------------- *)
\* hfi.h: HFI1_ODR_MASK(rsn) is (rsn) & OPA_PI_MASK_OFFLINE_REASON
HFI1_ODR_MASK(rsn) == BitAnd(rsn, OPA_PI_MASK_OFFLINE_REASON)

\* mutant of no_change: the argument is compared without !!
no_change_raw_arg == LNot(BitXor(linkup, linkup_arg))

\* line 84: !(ppd->linkup ^ !!linkup), non-zero when there is no change
no_change == LNot(BitXor(linkup, BangBang(linkup_arg)))

\* mutant of verify_cap_needed: both conditions are required
verify_cap_needed_both ==
    quick_linkup # 0 /\ icode = ICODE_FUNCTIONAL_SIMULATOR

\* line 102: quick_linkup || dd->icode == ICODE_FUNCTIONAL_SIMULATOR
verify_cap_needed ==
    quick_linkup # 0 \/ icode = ICODE_FUNCTIONAL_SIMULATOR

\* mutant of set_mgmt_allowed: the shifted frame is not masked
set_mgmt_allowed_unmasked(fr) ==
    IF neighbor_type = NEIGHBOR_TYPE_HFI
    THEN 1
    ELSE Shr(fr, MGMT_ALLOWED_SHIFT)

\* set_mgmt_allowed: the value stored in ppd->mgmt_allowed, fr being what
\* read_8051_config returns (read only for a non-HFI neighbor)
set_mgmt_allowed(fr) ==
    IF neighbor_type = NEIGHBOR_TYPE_HFI
    THEN 1
    ELSE BitAnd(Shr(fr, MGMT_ALLOWED_SHIFT), MGMT_ALLOWED_MASK)

\* mutant of signal_ib_event: the test of HFI1_INITTED is inverted
signal_ib_event_inverted(ev) ==
    IF "HFI1_INITTED" \in flags
    THEN dispatched
    ELSE Append(dispatched,
                [device |-> "ibdev", port_num |-> port, event |-> ev])

\* mutant of signal_ib_event: the test of HFI1_INITTED is missing
signal_ib_event_unguarded(ev) ==
    Append(dispatched, [device |-> "ibdev", port_num |-> port, event |-> ev])

\* signal_ib_event: the events dispatched once it returns
signal_ib_event(ev) ==
    IF "HFI1_INITTED" \notin flags
    THEN dispatched
    ELSE Append(dispatched,
                [device |-> "ibdev", port_num |-> port, event |-> ev])

\* hfi1_event_pkey_change (mad.c, outside intr.c): notify the listeners
\* that the partition key table of port p changed
hfi1_event_pkey_change(p) ==
    Append(dispatched,
           [device |-> "ibdev", port_num |-> p, event |-> "IB_EVENT_PKEY_CHANGE"])

\* what a caller of handle_user_interrupt finds in rcd under the lock
Entry == [in_use |-> in_use_ctxts, flags |-> event_flags,
          urgent |-> urgent, intravail |-> rcvctrl_intravail]
NoEntry == [in_use |-> {}, flags |-> {}, urgent |-> 0, intravail |-> 0]

\* mutant of bitmap_empty: the test is inverted
bitmap_empty_inverted(bm) == bm # {}

\* bitmap_empty(rcd->in_use_ctxts, HFI1_MAX_SHARED_CTXTS)
bitmap_empty(bm) == bm = {}

\* mutant of clear_bit: the bit is tested and not cleared
clear_bit_forgotten(b) == event_flags

\* mutant of test_bit: the result of test_and_clear_bit is not looked at
test_bit_ignored(b) == TRUE

\* test_and_clear_bit(b, &rcd->event_flags): the old bit, and the new flags
test_bit(b) == b \in event_flags
clear_bit(b) == event_flags \ {b}

\* mutant of urgent_inc: the counter is left as it is
urgent_not_counted(u) == u

\* rcd->urgent++ (the counter stays far below its width: see MaxUrgent)
urgent_inc(u) == u + 1

(* ------------------------------- Init ---------------------------------- *)
Init ==
    /\ pc = "idle"
    /\ linkup_arg = 0
    /\ frame = 0
    /\ linkup = 0
    /\ neighbor_guid = 0
    /\ neighbor_type = 0
    /\ neighbor_port_number = 0
    /\ neighbor_fm_security = 0
    /\ mgmt_allowed = 0
    /\ pkeys = [i \in 0 .. 2 |-> IF i = 1 THEN LIM_MGMT_P_KEY ELSE 0]
    /\ offline_disabled_reason \in { OPA_LINKDOWN_REASON_NONE, 1 }
    /\ actual_vls_operational = 0
    /\ neighbor_normal = 0
    /\ port = 1
    /\ flags \in { {}, {"HFI1_INITTED"} }
    /\ quick_linkup \in { 0, 1 }
    /\ icode \in { 0, ICODE_FUNCTIONAL_SIMULATOR }
    /\ vau = 3
    /\ vcu = 0
    /\ vl15_init = 2
    /\ uevent_bits = {}
    /\ trace = << >>
    /\ dispatched = << >>
    /\ uctxt_lock = 0
    /\ irq_pc = [c \in Callers |-> "idle"]
    /\ in_use_ctxts = {}
    /\ event_flags = {}
    /\ urgent = 0
    /\ rcvctrl_intravail = 0
    /\ irq_trace = [c \in Callers |-> << >>]
    /\ irq_entry = [c \in Callers |-> NoEntry]
    /\ local_irq = [c \in Callers |-> TRUE]
    /\ irq_flags = [c \in Callers |-> TRUE]
    /\ irq_on_entry = [c \in Callers |-> TRUE]
    /\ polls = [f \in {"rcv", "urg"} |-> 0]
    /\ wakes = [f \in {"rcv", "urg"} |-> 0]
    /\ disables = 0

(* ------------------- handle_linkup_change: entry ----------------------- *)
\* a caller (serial: one call at a time) invokes handle_linkup_change(dd, a)
call ==
    /\ pc = "idle"
    /\ \E a \in ArgVals : linkup_arg' = a
    /\ pc' = "check"
    /\ trace' = << >>
    /\ dispatched' = << >>
    /\ UNCHANGED <<irq_vars, frame, port_state>>

\* lines 84-87: return on no change, else take the up or the down branch
check ==
    /\ pc = "check"
    /\ pc' = IF no_change # 0 THEN "idle"
             ELSE IF linkup_arg # 0 THEN up_order[1]
             ELSE down_order[1]
    /\ UNCHANGED <<irq_vars, frame, linkup_arg, port_state, trace, dispatched>>

(* ------------------- handle_linkup_change: link up --------------------- *)
\* lines 102-106
verify_cap ==
    /\ pc = "verify_cap"
    /\ trace' = IF verify_cap_needed
                THEN trace \o << Call("set_up_vau", vau),
                                 Call("set_up_vl15", vl15_init),
                                 Call("assign_remote_cm_au_table", vcu) >>
                ELSE trace
    /\ pc' = After(up_order, pc, {})
    /\ UNCHANGED <<irq_vars, frame, linkup_arg, port_state, dispatched>>

\* lines 108-118
read_csr ==
    /\ pc = "read_csr"
    /\ \E g, t, p, s \in CsrVals :
         /\ neighbor_guid' = g
         /\ neighbor_type' = BitAnd(t, DC_DC8051_STS_REMOTE_NODE_TYPE_VAL_MASK)
         /\ neighbor_port_number' =
                BitAnd(p, DC_DC8051_STS_REMOTE_PORT_NO_VAL_SMASK)
         /\ neighbor_fm_security' =
                BitAnd(s, DC_DC8051_STS_LOCAL_FM_SECURITY_DISABLED_MASK)
    /\ trace' = trace \o << Call("read_csr_REMOTE_GUID", 0),
                            Call("read_csr_REMOTE_NODE_TYPE", 0),
                            Call("read_csr_REMOTE_PORT_NO", 0),
                            Call("read_csr_REMOTE_FM_SECURITY", 0) >>
    /\ pc' = After(up_order, pc, {})
    /\ UNCHANGED <<irq_vars, frame, linkup_arg, linkup, mgmt_allowed, pkeys,
                   offline_disabled_reason, actual_vls_operational,
                   neighbor_normal, port, flags, quick_linkup, icode, vau,
                   vcu, vl15_init, uevent_bits, dispatched>>

\* line 125
udelay ==
    /\ pc = "udelay"
    /\ trace' = Append(trace, Call("udelay", LINK_UP_DELAY))
    /\ pc' = After(up_order, pc, {})
    /\ UNCHANGED <<irq_vars, frame, linkup_arg, port_state, dispatched>>

\* line 131, set_mgmt_allowed (lines 16-28)
set_mgmt ==
    /\ pc = "set_mgmt"
    /\ \/ /\ neighbor_type = NEIGHBOR_TYPE_HFI
          /\ frame' = frame
          /\ mgmt_allowed' = set_mgmt_allowed(frame')
          /\ trace' = trace
       \/ /\ neighbor_type # NEIGHBOR_TYPE_HFI
          /\ frame' \in FrameVals
          /\ mgmt_allowed' = set_mgmt_allowed(frame')
          /\ trace' = Append(trace, Call("read_8051_config_GENERAL_CONFIG", 0))
    /\ pc' = After(up_order, pc, {})
    /\ UNCHANGED <<irq_vars, linkup_arg, linkup, neighbor_guid, neighbor_type,
                   neighbor_port_number, neighbor_fm_security, pkeys,
                   offline_disabled_reason, actual_vls_operational,
                   neighbor_normal, port, flags, quick_linkup, icode, vau,
                   vcu, vl15_init, uevent_bits, dispatched>>

\* mutant of if_mgmt: the test is negated
if_mgmt_negated ==
    /\ pc = "if_mgmt"
    /\ pc' = After(up_order, pc, IF mgmt_allowed = 0 THEN {} ELSE PkeySteps)
    /\ frame' = 0
    /\ UNCHANGED <<irq_vars, linkup_arg, port_state, trace, dispatched>>

\* mutant of if_mgmt: add_full_mgmt_pkey is called without the test
if_mgmt_untested ==
    /\ pc = "if_mgmt"
    /\ pc' = After(up_order, pc, {})
    /\ frame' = 0
    /\ UNCHANGED <<irq_vars, linkup_arg, port_state, trace, dispatched>>

\* line 133: if (ppd->mgmt_allowed) add_full_mgmt_pkey(ppd); the local
\* variable frame of set_mgmt_allowed is gone by now
if_mgmt ==
    /\ pc = "if_mgmt"
    /\ pc' = After(up_order, pc, IF mgmt_allowed # 0 THEN {} ELSE PkeySteps)
    /\ frame' = 0
    /\ UNCHANGED <<irq_vars, linkup_arg, port_state, trace, dispatched>>

\* mutant of pkey_write: an unexpected value is warned about and kept
pkey_write_keeps_unexpected ==
    /\ pc = "pkey_write"
    /\ trace' = IF ~ (pkeys[2] = 0 \/ pkeys[2] = FULL_MGMT_P_KEY)
                THEN Append(trace, Call("dd_dev_warn", pkeys[2]))
                ELSE trace
    /\ pkeys' = IF pkeys[2] = 0
                THEN [pkeys EXCEPT ![2] = FULL_MGMT_P_KEY]
                ELSE pkeys
    /\ pc' = After(up_order, pc, {})
    /\ UNCHANGED <<irq_vars, frame, linkup_arg, linkup, neighbor_guid, neighbor_type,
                   neighbor_port_number, neighbor_fm_security, mgmt_allowed,
                   offline_disabled_reason, actual_vls_operational,
                   neighbor_normal, port, flags, quick_linkup, icode, vau,
                   vcu, vl15_init, uevent_bits, dispatched>>

\* add_full_mgmt_pkey, lines 42-45: warn on an unexpected value, then store
pkey_write ==
    /\ pc = "pkey_write"
    /\ trace' = IF ~ (pkeys[2] = 0 \/ pkeys[2] = FULL_MGMT_P_KEY)
                THEN Append(trace, Call("dd_dev_warn", pkeys[2]))
                ELSE trace
    /\ pkeys' = [pkeys EXCEPT ![2] = FULL_MGMT_P_KEY]
    /\ pc' = After(up_order, pc, {})
    /\ UNCHANGED <<irq_vars, frame, linkup_arg, linkup, neighbor_guid, neighbor_type,
                   neighbor_port_number, neighbor_fm_security, mgmt_allowed,
                   offline_disabled_reason, actual_vls_operational,
                   neighbor_normal, port, flags, quick_linkup, icode, vau,
                   vcu, vl15_init, uevent_bits, dispatched>>

\* add_full_mgmt_pkey, line 46
pkey_push ==
    /\ pc = "pkey_push"
    /\ trace' = Append(trace, Call("hfi1_set_ib_cfg_PKEYS", 0))
    /\ pc' = After(up_order, pc, {})
    /\ UNCHANGED <<irq_vars, frame, linkup_arg, port_state, dispatched>>

\* add_full_mgmt_pkey, line 47
pkey_event ==
    /\ pc = "pkey_event"
    /\ trace' = Append(trace, Call("hfi1_event_pkey_change", port))
    /\ dispatched' = hfi1_event_pkey_change(port)
    /\ pc' = After(up_order, pc, {})
    /\ UNCHANGED <<irq_vars, frame, linkup_arg, port_state>>

\* mutant of set_linkup: the argument is stored instead of 1
set_linkup_stores_arg ==
    /\ pc = "set_linkup"
    /\ linkup' = linkup_arg
    /\ pc' = After(up_order, pc, {})
    /\ UNCHANGED <<irq_vars, frame, linkup_arg, neighbor_guid, neighbor_type,
                   neighbor_port_number, neighbor_fm_security, mgmt_allowed,
                   pkeys, offline_disabled_reason, actual_vls_operational,
                   neighbor_normal, port, flags, quick_linkup, icode, vau,
                   vcu, vl15_init, uevent_bits, trace, dispatched>>

\* line 137
set_linkup ==
    /\ pc = "set_linkup"
    /\ linkup' = 1
    /\ pc' = After(up_order, pc, {})
    /\ UNCHANGED <<irq_vars, frame, linkup_arg, neighbor_guid, neighbor_type,
                   neighbor_port_number, neighbor_fm_security, mgmt_allowed,
                   pkeys, offline_disabled_reason, actual_vls_operational,
                   neighbor_normal, port, flags, quick_linkup, icode, vau,
                   vcu, vl15_init, uevent_bits, trace, dispatched>>

\* lines 138-139
set_odr ==
    /\ pc = "set_odr"
    /\ offline_disabled_reason' = HFI1_ODR_MASK(OPA_LINKDOWN_REASON_NONE)
    /\ pc' = After(up_order, pc, {})
    /\ UNCHANGED <<irq_vars, frame, linkup_arg, linkup, neighbor_guid, neighbor_type,
                   neighbor_port_number, neighbor_fm_security, mgmt_allowed,
                   pkeys, actual_vls_operational, neighbor_normal, port,
                   flags, quick_linkup, icode, vau, vcu, vl15_init,
                   uevent_bits, trace, dispatched>>

\* line 142
widths ==
    /\ pc = "widths"
    /\ trace' = Append(trace, Call("get_linkup_link_widths", 0))
    /\ pc' = After(up_order, pc, {})
    /\ UNCHANGED <<irq_vars, frame, linkup_arg, port_state, dispatched>>

(* ------------------ handle_linkup_change: link down -------------------- *)
\* mutant of clr_linkup: the down transition also takes the management key
\* and the management permission away
clr_linkup_drops_mgmt ==
    /\ pc = "clr_linkup"
    /\ linkup' = 0
    /\ pkeys' = [pkeys EXCEPT ![2] = 0]
    /\ mgmt_allowed' = 0
    /\ pc' = After(down_order, pc, {})
    /\ UNCHANGED <<irq_vars, frame, linkup_arg, neighbor_guid, neighbor_type,
                   neighbor_port_number, neighbor_fm_security,
                   offline_disabled_reason, actual_vls_operational,
                   neighbor_normal, port, flags, quick_linkup, icode, vau,
                   vcu, vl15_init, uevent_bits, trace, dispatched>>

\* line 146
clr_linkup ==
    /\ pc = "clr_linkup"
    /\ linkup' = 0
    /\ pc' = After(down_order, pc, {})
    /\ UNCHANGED <<irq_vars, frame, linkup_arg, neighbor_guid, neighbor_type,
                   neighbor_port_number, neighbor_fm_security, mgmt_allowed,
                   pkeys, offline_disabled_reason, actual_vls_operational,
                   neighbor_normal, port, flags, quick_linkup, icode, vau,
                   vcu, vl15_init, uevent_bits, trace, dispatched>>

\* line 149
clr_vls ==
    /\ pc = "clr_vls"
    /\ actual_vls_operational' = 0
    /\ pc' = After(down_order, pc, {})
    /\ UNCHANGED <<irq_vars, frame, linkup_arg, linkup, neighbor_guid, neighbor_type,
                   neighbor_port_number, neighbor_fm_security, mgmt_allowed,
                   pkeys, offline_disabled_reason, neighbor_normal, port,
                   flags, quick_linkup, icode, vau, vcu, vl15_init,
                   uevent_bits, trace, dispatched>>

\* line 150
reset_credits ==
    /\ pc = "reset_credits"
    /\ trace' = Append(trace, Call("reset_link_credits", 0))
    /\ pc' = After(down_order, pc, {})
    /\ UNCHANGED <<irq_vars, frame, linkup_arg, port_state, dispatched>>

\* line 153
freeze ==
    /\ pc = "freeze"
    /\ trace' = Append(trace, Call("start_freeze_handling",
                                   BitOr(FREEZE_SELF, FREEZE_LINK_DOWN)))
    /\ pc' = After(down_order, pc, {})
    /\ UNCHANGED <<irq_vars, frame, linkup_arg, port_state, dispatched>>

\* line 157
uevent ==
    /\ pc = "uevent"
    /\ uevent_bits' = uevent_bits \cup {"_HFI1_EVENT_LINKDOWN_BIT"}
    /\ trace' = Append(trace, Call("hfi1_set_uevent_bits", 0))
    /\ pc' = After(down_order, pc, {})
    /\ UNCHANGED <<irq_vars, frame, linkup_arg, linkup, neighbor_guid, neighbor_type,
                   neighbor_port_number, neighbor_fm_security, mgmt_allowed,
                   pkeys, offline_disabled_reason, actual_vls_operational,
                   neighbor_normal, port, flags, quick_linkup, icode, vau,
                   vcu, vl15_init, dispatched>>

\* line 160
clr_nn ==
    /\ pc = "clr_nn"
    /\ neighbor_normal' = 0
    /\ pc' = After(down_order, pc, {})
    /\ UNCHANGED <<irq_vars, frame, linkup_arg, linkup, neighbor_guid, neighbor_type,
                   neighbor_port_number, neighbor_fm_security, mgmt_allowed,
                   pkeys, offline_disabled_reason, actual_vls_operational,
                   port, flags, quick_linkup, icode, vau, vcu, vl15_init,
                   uevent_bits, trace, dispatched>>

\* lines 155 and 163: ev = IB_EVENT_PORT_ERR; signal_ib_event(ppd, ev)
signal ==
    /\ pc = "signal"
    /\ dispatched' = signal_ib_event("IB_EVENT_PORT_ERR")
    /\ pc' = After(down_order, pc, {})
    /\ UNCHANGED <<irq_vars, frame, linkup_arg, port_state, trace>>

\* one statement of handle_linkup_change
handle_linkup_change ==
    \/ call \/ check
    \/ verify_cap \/ read_csr \/ udelay \/ set_mgmt \/ if_mgmt
    \/ pkey_write \/ pkey_push \/ pkey_event
    \/ set_linkup \/ set_odr \/ widths
    \/ clr_linkup \/ clr_vls \/ reset_credits \/ freeze \/ uevent
    \/ clr_nn \/ signal

(* ---------------- the rest of the driver, between calls ---------------- *)
\* the user clears the link-down event bit it has seen (file_ops.c)
env_ack_uevent ==
    /\ pc = "idle"
    /\ "_HFI1_EVENT_LINKDOWN_BIT" \in uevent_bits
    /\ uevent_bits' = {}
    /\ UNCHANGED <<irq_vars, frame, pc, linkup_arg, linkup, neighbor_guid, neighbor_type,
                   neighbor_port_number, neighbor_fm_security, mgmt_allowed,
                   pkeys, offline_disabled_reason, actual_vls_operational,
                   neighbor_normal, port, flags, quick_linkup, icode, vau,
                   vcu, vl15_init, trace, dispatched>>

\* on a link that is up, the fabric manager sets the operational VLs and
\* the neighbor is found normal (mad.c, chip.c)
env_fm_configure ==
    /\ pc = "idle"
    /\ linkup = 1
    /\ actual_vls_operational = 0
    /\ \E n \in 1 .. MaxVls : actual_vls_operational' = n
    /\ neighbor_normal' = 1
    /\ UNCHANGED <<irq_vars, frame, pc, linkup_arg, linkup, neighbor_guid, neighbor_type,
                   neighbor_port_number, neighbor_fm_security, mgmt_allowed,
                   pkeys, offline_disabled_reason, port, flags, quick_linkup,
                   icode, vau, vcu, vl15_init, uevent_bits, trace,
                   dispatched>>

\* while the port is down, a value that is neither 0 nor FULL_MGMT_P_KEY
\* is put into pkeys[2] from outside intr.c
env_corrupt_pkey ==
    /\ pc = "idle"
    /\ linkup = 0
    /\ pkeys[2] \in { 0, FULL_MGMT_P_KEY }
    /\ pkeys' = [pkeys EXCEPT ![2] = LIM_MGMT_P_KEY]
    /\ UNCHANGED <<irq_vars, frame, pc, linkup_arg, linkup, neighbor_guid, neighbor_type,
                   neighbor_port_number, neighbor_fm_security, mgmt_allowed,
                   offline_disabled_reason, actual_vls_operational,
                   neighbor_normal, port, flags, quick_linkup, icode, vau,
                   vcu, vl15_init, uevent_bits, trace, dispatched>>

(* ----------------------- handle_user_interrupt ------------------------- *)
\* an interrupt for the context arrives: caller c enters the handler, on a
\* CPU whose local interrupts are enabled or not
irq_call(c) ==
    /\ irq_pc[c] = "idle"
    /\ irq_pc' = [irq_pc EXCEPT ![c] = "lock"]
    /\ irq_trace' = [irq_trace EXCEPT ![c] = << >>]
    /\ \E e \in BOOLEAN :
         /\ local_irq' = [local_irq EXCEPT ![c] = e]
         /\ irq_on_entry' = [irq_on_entry EXCEPT ![c] = e]
    /\ irq_flags' = [irq_flags EXCEPT ![c] = TRUE]
    /\ UNCHANGED <<link_vars, irq_counts, uctxt_lock, in_use_ctxts, event_flags, urgent,
                   rcvctrl_intravail, irq_entry>>

\* line 176: spin_lock_irqsave(&dd->uctxt_lock, flags)
irq_lock(c) ==
    /\ irq_pc[c] = "lock"
    /\ uctxt_lock = 0
    /\ uctxt_lock' = c
    /\ irq_flags' = [irq_flags EXCEPT ![c] = local_irq[c]]
    /\ local_irq' = [local_irq EXCEPT ![c] = FALSE]
    /\ irq_entry' = [irq_entry EXCEPT ![c] = Entry]
    /\ irq_pc' = [irq_pc EXCEPT ![c] = "bitmap"]
    /\ UNCHANGED <<link_vars, irq_on_entry, irq_counts, in_use_ctxts, event_flags, urgent,
                   rcvctrl_intravail, irq_trace>>

\* lines 177-178
irq_bitmap(c) ==
    /\ irq_pc[c] = "bitmap"
    /\ irq_pc' = [irq_pc EXCEPT ![c] =
                    IF bitmap_empty(in_use_ctxts) THEN "unlock" ELSE "tac_rcv"]
    /\ UNCHANGED <<link_vars, irq_cpu, irq_counts, uctxt_lock, in_use_ctxts, event_flags, urgent,
                   rcvctrl_intravail, irq_trace, irq_entry>>

\* line 180: test_and_clear_bit(HFI1_CTXT_WAITING_RCV, &rcd->event_flags)
irq_tac_rcv(c) ==
    /\ irq_pc[c] = "tac_rcv"
    /\ event_flags' = clear_bit("HFI1_CTXT_WAITING_RCV")
    /\ irq_pc' = [irq_pc EXCEPT ![c] =
                    IF test_bit("HFI1_CTXT_WAITING_RCV")
                    THEN "wake_rcv" ELSE "tac_urg"]
    /\ UNCHANGED <<link_vars, irq_cpu, irq_counts, uctxt_lock, in_use_ctxts, urgent,
                   rcvctrl_intravail, irq_trace, irq_entry>>

\* line 181
irq_wake_rcv(c) ==
    /\ irq_pc[c] = "wake_rcv"
    /\ irq_trace' = [irq_trace EXCEPT ![c] = Append(@, "wake_up_interruptible")]
    /\ wakes' = [wakes EXCEPT !["rcv"] = @ + 1]
    /\ irq_pc' = [irq_pc EXCEPT ![c] = "rcvctrl"]
    /\ UNCHANGED <<link_vars, irq_cpu, polls, disables, uctxt_lock, in_use_ctxts, event_flags, urgent,
                   rcvctrl_intravail, irq_entry>>

\* mutant of irq_rcvctrl: the else is missing, so the urgent test follows
irq_rcvctrl_no_else(c) ==
    /\ irq_pc[c] = "rcvctrl"
    /\ irq_trace' = [irq_trace EXCEPT ![c] =
                       Append(@, "hfi1_rcvctrl_INTRAVAIL_DIS")]
    /\ rcvctrl_intravail' = 0
    /\ disables' = disables + 1
    /\ irq_pc' = [irq_pc EXCEPT ![c] = "tac_urg"]
    /\ UNCHANGED <<link_vars, irq_cpu, polls, wakes, uctxt_lock, in_use_ctxts, event_flags, urgent,
                   irq_entry>>

\* line 182: hfi1_rcvctrl(dd, HFI1_RCVCTRL_INTRAVAIL_DIS, rcd)
irq_rcvctrl(c) ==
    /\ irq_pc[c] = "rcvctrl"
    /\ irq_trace' = [irq_trace EXCEPT ![c] =
                       Append(@, "hfi1_rcvctrl_INTRAVAIL_DIS")]
    /\ rcvctrl_intravail' = 0
    /\ disables' = disables + 1
    /\ irq_pc' = [irq_pc EXCEPT ![c] = "unlock"]
    /\ UNCHANGED <<link_vars, irq_cpu, polls, wakes, uctxt_lock, in_use_ctxts, event_flags, urgent,
                   irq_entry>>

\* lines 183-184: test_and_clear_bit(HFI1_CTXT_WAITING_URG, &rcd->event_flags)
irq_tac_urg(c) ==
    /\ irq_pc[c] = "tac_urg"
    /\ event_flags' = clear_bit("HFI1_CTXT_WAITING_URG")
    /\ irq_pc' = [irq_pc EXCEPT ![c] =
                    IF test_bit("HFI1_CTXT_WAITING_URG")
                    THEN "urg_inc" ELSE "unlock"]
    /\ UNCHANGED <<link_vars, irq_cpu, irq_counts, uctxt_lock, in_use_ctxts, urgent,
                   rcvctrl_intravail, irq_trace, irq_entry>>

\* line 185
irq_urg_inc(c) ==
    /\ irq_pc[c] = "urg_inc"
    /\ urgent' = urgent_inc(urgent)
    /\ irq_pc' = [irq_pc EXCEPT ![c] = "wake_urg"]
    /\ UNCHANGED <<link_vars, irq_cpu, irq_counts, uctxt_lock, in_use_ctxts, event_flags,
                   rcvctrl_intravail, irq_trace, irq_entry>>

\* line 186
irq_wake_urg(c) ==
    /\ irq_pc[c] = "wake_urg"
    /\ irq_trace' = [irq_trace EXCEPT ![c] = Append(@, "wake_up_interruptible")]
    /\ wakes' = [wakes EXCEPT !["urg"] = @ + 1]
    /\ irq_pc' = [irq_pc EXCEPT ![c] = "unlock"]
    /\ UNCHANGED <<link_vars, irq_cpu, polls, disables, uctxt_lock, in_use_ctxts, event_flags, urgent,
                   rcvctrl_intravail, irq_entry>>

\* mutant of irq_unlock: spin_unlock, the saved interrupt state not restored
irq_unlock_no_restore(c) ==
    /\ irq_pc[c] = "unlock"
    /\ uctxt_lock' = 0
    /\ irq_pc' = [irq_pc EXCEPT ![c] = "idle"]
    /\ irq_trace' = [irq_trace EXCEPT ![c] = << >>]
    /\ irq_entry' = [irq_entry EXCEPT ![c] = NoEntry]
    /\ UNCHANGED <<link_vars, irq_cpu, irq_counts, in_use_ctxts, event_flags,
                   urgent, rcvctrl_intravail>>

\* lines 188-190: spin_unlock_irqrestore(&dd->uctxt_lock, flags); return
irq_unlock(c) ==
    /\ irq_pc[c] = "unlock"
    /\ uctxt_lock' = 0
    /\ local_irq' = [local_irq EXCEPT ![c] = irq_flags[c]]
    /\ irq_pc' = [irq_pc EXCEPT ![c] = "idle"]
    /\ irq_trace' = [irq_trace EXCEPT ![c] = << >>]
    /\ irq_entry' = [irq_entry EXCEPT ![c] = NoEntry]
    /\ UNCHANGED <<link_vars, irq_flags, irq_on_entry, irq_counts, in_use_ctxts, event_flags, urgent,
                   rcvctrl_intravail>>

\* one statement of handle_user_interrupt, by caller c
handle_user_interrupt(c) ==
    \/ irq_call(c) \/ irq_lock(c) \/ irq_bitmap(c)
    \/ irq_tac_rcv(c) \/ irq_wake_rcv(c) \/ irq_rcvctrl(c)
    \/ irq_tac_urg(c) \/ irq_urg_inc(c) \/ irq_wake_urg(c)
    \/ irq_unlock(c)

(* ------------- the consumers of the context (file_ops.c) --------------- *)
\* a consumer opens sub-context i, under uctxt_lock
env_open_subctxt ==
    /\ uctxt_lock = 0
    /\ \E i \in Subctxts \ in_use_ctxts : in_use_ctxts' = in_use_ctxts \cup {i}
    /\ UNCHANGED <<link_vars, irq_cpu, irq_counts, uctxt_lock, irq_pc, event_flags, urgent,
                   rcvctrl_intravail, irq_trace, irq_entry>>

\* a consumer closes sub-context i, under uctxt_lock
env_close_subctxt ==
    /\ uctxt_lock = 0
    /\ \E i \in in_use_ctxts : in_use_ctxts' = in_use_ctxts \ {i}
    /\ UNCHANGED <<link_vars, irq_cpu, irq_counts, uctxt_lock, irq_pc, event_flags, urgent,
                   rcvctrl_intravail, irq_trace, irq_entry>>

\* a consumer polls for receive data: it sets WAITING_RCV and enables the
\* receive-available interrupt, under uctxt_lock
env_poll_rcv ==
    /\ uctxt_lock = 0
    /\ in_use_ctxts # {}
    /\ "HFI1_CTXT_WAITING_RCV" \notin event_flags
    /\ polls["rcv"] < MaxPolls
    /\ event_flags' = event_flags \cup {"HFI1_CTXT_WAITING_RCV"}
    /\ rcvctrl_intravail' = 1
    /\ polls' = [polls EXCEPT !["rcv"] = @ + 1]
    /\ UNCHANGED <<link_vars, irq_cpu, wakes, disables, uctxt_lock, irq_pc, in_use_ctxts, urgent,
                   irq_trace, irq_entry>>

\* a consumer polls for an urgent event: it sets WAITING_URG, under
\* uctxt_lock
env_poll_urg ==
    /\ uctxt_lock = 0
    /\ in_use_ctxts # {}
    /\ urgent < MaxUrgent
    /\ "HFI1_CTXT_WAITING_URG" \notin event_flags
    /\ event_flags' = event_flags \cup {"HFI1_CTXT_WAITING_URG"}
    /\ polls' = [polls EXCEPT !["urg"] = @ + 1]
    /\ UNCHANGED <<link_vars, irq_cpu, wakes, disables, uctxt_lock, irq_pc, in_use_ctxts, urgent,
                   rcvctrl_intravail, irq_trace, irq_entry>>

\* the receive-available interrupt of the context is enabled from outside
\* intr.c (hfi1_rcvctrl with HFI1_RCVCTRL_INTRAVAIL_ENB), under uctxt_lock
env_rcvctrl_enable ==
    /\ uctxt_lock = 0
    /\ rcvctrl_intravail = 0
    /\ rcvctrl_intravail' = 1
    /\ UNCHANGED <<link_vars, irq_cpu, irq_counts, uctxt_lock, irq_pc, in_use_ctxts, event_flags,
                   urgent, irq_trace, irq_entry>>

(* ------------------------- the specifications -------------------------- *)
\* the link state handler and the rest of the driver around it
Next ==
    \/ handle_linkup_change
    \/ env_ack_uevent
    \/ env_fm_configure
    \/ env_corrupt_pkey

Spec == Init /\ [][Next]_vars

\* the user-context interrupt handler and the consumers of the context
NextIrq ==
    \/ \E c \in Callers : handle_user_interrupt(c)
    \/ env_open_subctxt
    \/ env_close_subctxt
    \/ env_poll_rcv
    \/ env_poll_urg
    \/ env_rcvctrl_enable

SpecIrq == Init /\ [][NextIrq]_vars

(* ======================= properties of the handlers ==================== *)
\* the requested state of the running (or last) call: 1 is up, 0 is down
Requested == IF linkup_arg # 0 THEN 1 ELSE 0

\* a non-redundant up transition has set the link-up flag (its calls are in
\* trace; a redundant call and the start of a down transition leave it empty)
UpApplied == linkup = 1 /\ trace # << >>

\* a non-redundant down transition has returned
DownReturned == pc = "idle" /\ linkup_arg = 0 /\ trace # << >>

PortErrEvent ==
    [device |-> "ibdev", port_num |-> port, event |-> "IB_EVENT_PORT_ERR"]

\* C1: a call whose requested state equals ppd->linkup returns at once: it
\* changes no field of the port or the device, calls nothing outside intr.c
\* and dispatches no event.
C1_RedundantCallIsNoop ==
    [][ (pc = "check" /\ Requested = linkup)
            => /\ pc' = "idle"
               /\ port_state' = port_state
               /\ trace = << >> /\ trace' = << >>
               /\ dispatched = << >> /\ dispatched' = << >> ]_vars

\* a redundant up call (with an argument other than 1) has returned
C1_Witness ==
    pc = "idle" /\ linkup = 1 /\ linkup_arg > 1 /\ trace = << >>

\* C2: whenever a call has returned, ppd->linkup is 1 if its argument was
\* non-zero and 0 if it was zero; ppd->linkup is never anything but 0 or 1.
C2_FlagMirrorsLastCall ==
    /\ linkup \in {0, 1}
    /\ pc = "idle" => linkup = Requested

\* a non-redundant up call with an argument other than 1 has returned
C2_Witness ==
    pc = "idle" /\ linkup = 1 /\ linkup_arg > 1 /\ trace # << >>

\* C3: in an up transition with management allowed, the write of pkeys[2],
\* the push of the pkey table and the pkey-change notification all happen
\* while ppd->linkup is still 0: none of them is pending, or was made, with
\* the flag set.
C3_PkeyBeforeLinkup ==
    /\ pc \in PkeySteps => linkup = 0
    /\ \A i \in 1 .. Len(trace) :
         trace[i].fn \in {"hfi1_set_ib_cfg_PKEYS", "hfi1_event_pkey_change"}
            => trace[i].linkup = 0
    /\ (UpApplied /\ mgmt_allowed # 0)
         => /\ pkeys[2] = FULL_MGMT_P_KEY
            /\ Cardinality(CallsOf(trace, "hfi1_set_ib_cfg_PKEYS")) = 1
            /\ Cardinality(CallsOf(trace, "hfi1_event_pkey_change")) = 1

\* an up transition with management allowed has returned
C3_Witness ==
    /\ pc = "idle" /\ UpApplied /\ mgmt_allowed # 0
    /\ CallsOf(trace, "hfi1_event_pkey_change") # {}

\* C4 as claimed: once the port is marked up, pkeys[2] is 0 or
\* FULL_MGMT_P_KEY, whatever was put into it before the transition.
C4_NeverUnexpectedWhenUp ==
    linkup = 1 => pkeys[2] \in {0, FULL_MGMT_P_KEY}

\* C4, amended: only add_full_mgmt_pkey corrects pkeys[2]. Its store makes
\* pkeys[2] FULL_MGMT_P_KEY whatever it held, so an up transition with
\* management allowed returns with pkeys[2] = FULL_MGMT_P_KEY; every other
\* statement of handle_linkup_change (an up transition without management,
\* a down transition) leaves the pkey table as it was.
C4_CorrectedOnlyByAddFullMgmtPkey ==
    [][ /\ pc = "pkey_write" => pkeys'[2] = FULL_MGMT_P_KEY
        /\ (pc # "idle" /\ pc # "pkey_write") => pkeys' = pkeys
        /\ (pc = "widths" /\ mgmt_allowed # 0)
             => (pc' = "idle" /\ linkup' = 1 /\ pkeys'[2] = FULL_MGMT_P_KEY)
      ]_vars

\* add_full_mgmt_pkey has warned about an unexpected pkeys[2] and replaced it
C4_Witness ==
    /\ pc = "pkey_push"
    /\ CallsOf(trace, "dd_dev_warn") # {}
    /\ pkeys[2] = FULL_MGMT_P_KEY

\* C5 as claimed: every non-redundant down transition ends with the flag
\* cleared, no operational VLs, neighbor_normal cleared and exactly one
\* port-error event dispatched.
C5_DownAlwaysDispatchesPortErr ==
    DownReturned
        => /\ linkup = 0
           /\ actual_vls_operational = 0
           /\ neighbor_normal = 0
           /\ dispatched = << PortErrEvent >>

\* C5, amended: every non-redundant down transition ends with the flag
\* cleared, no operational VLs and neighbor_normal cleared; it dispatches
\* exactly one port-error event if HFI1_INITTED is set and none otherwise.
C5_DownResult ==
    DownReturned
        => /\ linkup = 0
           /\ actual_vls_operational = 0
           /\ neighbor_normal = 0
           /\ dispatched = IF "HFI1_INITTED" \in flags
                           THEN << PortErrEvent >>
                           ELSE << >>

\* a down transition of a registered device has returned
C5_Witness ==
    DownReturned /\ "HFI1_INITTED" \in flags /\ Len(dispatched) = 1

\* C6: signal_ib_event forwards nothing and changes nothing while
\* HFI1_INITTED is unset; when it is set the call forwards exactly one event
\* with the device, the port number and the event kind, and returns.
C6_SignalGatedOnInitted ==
    [][ pc = "signal"
          => /\ pc' = "idle"
             /\ port_state' = port_state
             /\ trace' = trace
             /\ dispatched' =
                  IF "HFI1_INITTED" \in flags
                  THEN Append(dispatched, PortErrEvent)
                  ELSE dispatched ]_vars

\* signal_ib_event has returned on a device that is not registered
C6_Witness ==
    DownReturned /\ "HFI1_INITTED" \notin flags /\ dispatched = << >>

\* C7 as claimed: while HFI1_INITTED is unset no event of any kind is
\* dispatched to the upstream event consumer.
C7_NoEventBeforeRegistration ==
    "HFI1_INITTED" \notin flags => dispatched = << >>

\* caller c of handle_user_interrupt has done its work and is about to
\* release the lock it took
AtUnlock(c) == irq_pc[c] = "unlock" /\ uctxt_lock = c

\* C8: with an empty in-use bitmap handle_user_interrupt goes from the
\* bitmap test to the unlock: no wake, both flags, the urgent counter and
\* the receive-available enable as found, and the lock is not kept.
C8_EmptyBitmapNoWork ==
    \A c \in Callers :
      /\ (uctxt_lock = c /\ irq_entry[c].in_use = {})
           => /\ irq_pc[c] \in {"bitmap", "unlock"}
              /\ irq_trace[c] = << >>
              /\ event_flags = irq_entry[c].flags
              /\ urgent = irq_entry[c].urgent
              /\ rcvctrl_intravail = irq_entry[c].intravail
      /\ irq_pc[c] = "idle" => uctxt_lock # c

\* a caller reaches the unlock having found the bitmap empty and both
\* flags set
C8_Witness ==
    \E c \in Callers :
      /\ AtUnlock(c)
      /\ irq_entry[c].in_use = {}
      /\ irq_entry[c].flags =
           {"HFI1_CTXT_WAITING_RCV", "HFI1_CTXT_WAITING_URG"}

\* C9: with a non-empty bitmap and only WAITING_URG set, one call wakes
\* the wait queue exactly once, adds exactly one to the urgent counter,
\* clears WAITING_URG and leaves the receive-available enable alone.
C9_UrgentOnly ==
    \A c \in Callers :
      (/\ AtUnlock(c)
       /\ irq_entry[c].in_use # {}
       /\ irq_entry[c].flags = {"HFI1_CTXT_WAITING_URG"})
        => /\ irq_trace[c] = << "wake_up_interruptible" >>
           /\ urgent = irq_entry[c].urgent + 1
           /\ event_flags = {}
           /\ rcvctrl_intravail = irq_entry[c].intravail

\* a caller has run the urgent branch with the receive-available interrupt
\* enabled
C9_Witness ==
    \E c \in Callers :
      /\ AtUnlock(c)
      /\ irq_entry[c].in_use # {}
      /\ irq_entry[c].flags = {"HFI1_CTXT_WAITING_URG"}
      /\ irq_entry[c].intravail = 1
      /\ irq_trace[c] # << >>

\* C10: with a non-empty bitmap and WAITING_RCV set, one call runs the
\* receive branch only: WAITING_RCV cleared, one wake, then the
\* receive-available interrupt disabled; WAITING_URG and the urgent counter
\* as found.
C10_ReceiveFirst ==
    \A c \in Callers :
      (/\ AtUnlock(c)
       /\ irq_entry[c].in_use # {}
       /\ "HFI1_CTXT_WAITING_RCV" \in irq_entry[c].flags)
        => /\ irq_trace[c] = << "wake_up_interruptible",
                                "hfi1_rcvctrl_INTRAVAIL_DIS" >>
           /\ event_flags = irq_entry[c].flags \ {"HFI1_CTXT_WAITING_RCV"}
           /\ urgent = irq_entry[c].urgent
           /\ rcvctrl_intravail = 0

\* a caller has run the receive branch having found both flags set
C10_Witness ==
    \E c \in Callers :
      /\ AtUnlock(c)
      /\ irq_entry[c].in_use # {}
      /\ irq_entry[c].flags =
           {"HFI1_CTXT_WAITING_RCV", "HFI1_CTXT_WAITING_URG"}
      /\ irq_entry[c].intravail = 1
      /\ "HFI1_CTXT_WAITING_URG" \in event_flags

\* 1 when flag b is set in rcd->event_flags, else 0
IsSet(b) == IF b \in event_flags THEN 1 ELSE 0

\* the callers at one of the given statements
CallersAt(pcs) == { c \in Callers : irq_pc[c] \in pcs }

\* the statements of handle_user_interrupt between lock and unlock
CriticalSection ==
    { "bitmap", "tac_rcv", "wake_rcv", "rcvctrl", "tac_urg", "urg_inc",
      "wake_urg", "unlock" }

\* C11: however many callers run concurrently, each setting of WAITING_RCV
\* is seen set by exactly one of them: at most one caller is in the receive
\* branch, and the receive wakes and the receive-available disables, each
\* with the ones still to be made by that caller, equal the settings of the
\* flag that have been consumed.
C11_OneWinnerPerSetting ==
    /\ Cardinality(CallersAt({"wake_rcv", "rcvctrl"})) <= 1
    /\ wakes["rcv"] + Cardinality(CallersAt({"wake_rcv"}))
         = polls["rcv"] - IsSet("HFI1_CTXT_WAITING_RCV")
    /\ disables + Cardinality(CallersAt({"wake_rcv", "rcvctrl"}))
         = polls["rcv"] - IsSet("HFI1_CTXT_WAITING_RCV")

\* one caller has won the flag and done the receive branch while another
\* caller is in the handler, waiting for the lock
C11_Witness ==
    \E c, d \in Callers :
      /\ c # d
      /\ AtUnlock(c)
      /\ irq_trace[c] = << "wake_up_interruptible",
                           "hfi1_rcvctrl_INTRAVAIL_DIS" >>
      /\ irq_pc[d] = "lock"
      /\ polls["rcv"] = 1 /\ wakes["rcv"] = 1 /\ disables = 1

\* C12: every statement between lock and unlock runs with uctxt_lock held
\* and local interrupts off, by at most one caller at a time; a call that
\* has returned, by whichever path, holds no lock and has the interrupt
\* state it was entered with; the holder of the lock can always proceed.
C12_LockDiscipline ==
    /\ Cardinality(CallersAt(CriticalSection)) <= 1
    /\ \A c \in Callers :
         /\ irq_pc[c] \in CriticalSection
              => /\ uctxt_lock = c
                 /\ local_irq[c] = FALSE
                 /\ irq_flags[c] = irq_on_entry[c]
                 /\ ENABLED handle_user_interrupt(c)
         /\ irq_pc[c] \notin CriticalSection => uctxt_lock # c
         /\ irq_pc[c] = "idle" => local_irq[c] = irq_on_entry[c]

\* a caller entered with interrupts enabled is about to unlock, interrupts
\* off, while another caller waits for the lock
C12_Witness ==
    \E c, d \in Callers :
      /\ c # d
      /\ AtUnlock(c)
      /\ irq_on_entry[c] = TRUE /\ local_irq[c] = FALSE
      /\ irq_pc[d] = "lock"

\* C13: set_mgmt_allowed stores 1 for a neighbor of type NEIGHBOR_TYPE_HFI,
\* without reading the partner's frame, and otherwise the MgmtAllowed bit
\* (bit MGMT_ALLOWED_SHIFT) of the GENERAL_CONFIG frame it reads, 0 or 1; it
\* writes ppd->mgmt_allowed and nothing else.
C13_MgmtAllowedFromNeighbor ==
    [][ pc = "set_mgmt"
          => /\ mgmt_allowed' =
                  IF neighbor_type = NEIGHBOR_TYPE_HFI
                  THEN 1
                  ELSE (frame' \div (2 ^ MGMT_ALLOWED_SHIFT)) % 2
             /\ neighbor_type = NEIGHBOR_TYPE_HFI => trace' = trace
             /\ neighbor_type # NEIGHBOR_TYPE_HFI
                  => trace' = Append(trace,
                                     Call("read_8051_config_GENERAL_CONFIG", 0))
             /\ UNCHANGED <<linkup, neighbor_guid, neighbor_type,
                            neighbor_port_number, neighbor_fm_security, pkeys,
                            offline_disabled_reason, actual_vls_operational,
                            neighbor_normal, port, flags, quick_linkup, icode,
                            vau, vcu, vl15_init, uevent_bits, dispatched>>
      ]_vars

\* set_mgmt_allowed has returned 0 for a non-HFI neighbor whose frame has
\* bits above MgmtAllowed set and MgmtAllowed clear
C13_Witness ==
    /\ pc = "if_mgmt"
    /\ neighbor_type # NEIGHBOR_TYPE_HFI
    /\ frame >= 2 ^ (MGMT_ALLOWED_SHIFT + 1)
    /\ mgmt_allowed = 0

\* how often fn was called in trace t
Times(t, fn) == Cardinality(CallsOf(t, fn))

\* C14: add_full_mgmt_pkey runs only with mgmt_allowed set and ppd->linkup
\* still 0. The pkey table changes nowhere else in handle_linkup_change, so
\* an up transition with mgmt_allowed = 0 leaves it as it was and makes no
\* pkey push and no pkey-change notification; one with mgmt_allowed = 1
\* makes exactly one of each.
C14_AddFullMgmtPkeyOnlyWhenAllowed ==
    [][ /\ pc \in PkeySteps => (mgmt_allowed # 0 /\ linkup = 0)
        /\ (pc # "idle" /\ pkeys' # pkeys)
             => (pc = "pkey_write" /\ mgmt_allowed # 0)
        /\ pc = "widths"
             => LET n == IF mgmt_allowed # 0 THEN 1 ELSE 0
                IN  /\ pc' = "idle"
                    /\ Times(trace', "hfi1_set_ib_cfg_PKEYS") = n
                    /\ Times(trace', "hfi1_event_pkey_change") = n
                    /\ Len(dispatched') = n
      ]_vars

\* an up transition without management has returned: no push, no
\* notification, pkeys[2] still unset
C14_Witness ==
    /\ pc = "idle" /\ UpApplied /\ mgmt_allowed = 0
    /\ Times(trace, "hfi1_set_ib_cfg_PKEYS") = 0
    /\ dispatched = << >>
    /\ pkeys[2] = 0

\* the calls a down transition has made once it has passed the named step,
\* each made with ppd->linkup already 0
DownCalls(n) ==
    SubSeq(<< [fn |-> "reset_link_credits", arg |-> 0, linkup |-> 0],
              [fn |-> "start_freeze_handling",
               arg |-> FREEZE_SELF + FREEZE_LINK_DOWN, linkup |-> 0],
              [fn |-> "hfi1_set_uevent_bits", arg |-> 0, linkup |-> 0] >>,
           1, n)

\* the port as the consumer of the port-error event finds it
DownPort ==
    /\ linkup = 0
    /\ actual_vls_operational = 0
    /\ "_HFI1_EVENT_LINKDOWN_BIT" \in uevent_bits
    /\ neighbor_normal = 0

\* C15: a down transition runs its steps in program order: linkup cleared,
\* lane count zeroed, credits reset, one freeze with FREEZE_SELF |
\* FREEZE_LINK_DOWN, link-down user-event bit set, neighbor_normal cleared,
\* then the port-error event. The freeze is never started with linkup still
\* 1, and the event is forwarded on a port that already shows the link down.
C15_DownStepsInOrder ==
    /\ pc = "clr_linkup" => (linkup = 1 /\ trace = << >> /\ dispatched = << >>)
    /\ pc = "clr_vls" => (linkup = 0 /\ trace = << >> /\ dispatched = << >>)
    /\ pc = "reset_credits"
         => /\ linkup = 0 /\ actual_vls_operational = 0
            /\ trace = DownCalls(0) /\ dispatched = << >>
    /\ pc = "freeze"
         => /\ linkup = 0 /\ actual_vls_operational = 0
            /\ trace = DownCalls(1) /\ dispatched = << >>
    /\ pc = "uevent"
         => /\ linkup = 0 /\ actual_vls_operational = 0
            /\ trace = DownCalls(2) /\ dispatched = << >>
    /\ pc = "clr_nn"
         => /\ linkup = 0 /\ actual_vls_operational = 0
            /\ "_HFI1_EVENT_LINKDOWN_BIT" \in uevent_bits
            /\ trace = DownCalls(3) /\ dispatched = << >>
    /\ pc = "signal"
         => (DownPort /\ trace = DownCalls(3) /\ dispatched = << >>)
    /\ DownReturned
         => /\ trace = DownCalls(3)
            /\ linkup = 0 /\ actual_vls_operational = 0 /\ neighbor_normal = 0
            /\ Len(dispatched) <= 1
    /\ \A i \in 1 .. Len(trace) :
         trace[i].fn = "start_freeze_handling"
           => /\ trace[i].linkup = 0
              /\ trace[i].arg = FREEZE_SELF + FREEZE_LINK_DOWN
              /\ Times(trace, "start_freeze_handling") = 1

\* a down transition of a port that had lanes and a normal neighbor has
\* forwarded its port-error event
C15_Witness ==
    /\ DownReturned
    /\ Len(dispatched) = 1 /\ dispatched[1].event = "IB_EVENT_PORT_ERR"
    /\ DownPort
    /\ Times(trace, "start_freeze_handling") = 1

\* the four neighbor registers of lines 108-118
NeighborReads ==
    { "read_csr_REMOTE_GUID", "read_csr_REMOTE_NODE_TYPE",
      "read_csr_REMOTE_PORT_NO", "read_csr_REMOTE_FM_SECURITY" }

\* every call of a function of fns in t is made before every call of fn
AllBefore(t, fns, fn) ==
    \A f \in fns : \A i \in CallsOf(t, f) : \A j \in CallsOf(t, fn) : i < j

\* the up transition has read the neighbor once and not waited yet
ReadsDone ==
    /\ \A f \in NeighborReads : Times(trace, f) = 1
    /\ \A i \in 1 .. Len(trace) : trace[i].linkup = 0

\* the up transition has read the neighbor and then waited LINK_UP_DELAY
DelayDone ==
    /\ ReadsDone
    /\ Times(trace, "udelay") = 1
    /\ \A i \in CallsOf(trace, "udelay") : trace[i].arg = 500
    /\ AllBefore(trace, NeighborReads, "udelay")

\* C16: an up transition reads the four neighbor registers, waits 500 us,
\* runs the management negotiation, sets ppd->linkup and sets
\* offline_disabled_reason to OPA_LINKDOWN_REASON_NONE, and queries the link
\* widths exactly once, with ppd->linkup already 1.
C16_UpStepsInOrder ==
    /\ pc = "read_csr"
         => /\ linkup = 0
            /\ \A f \in NeighborReads \cup {"udelay"} : Times(trace, f) = 0
    /\ pc = "udelay" => (ReadsDone /\ Times(trace, "udelay") = 0)
    /\ pc = "set_mgmt"
         => (DelayDone /\ Times(trace, "read_8051_config_GENERAL_CONFIG") = 0)
    /\ pc \in {"if_mgmt", "set_linkup"} \cup PkeySteps
         => /\ DelayDone /\ linkup = 0
            /\ AllBefore(trace, {"udelay"}, "read_8051_config_GENERAL_CONFIG")
            /\ Times(trace, "get_linkup_link_widths") = 0
    /\ pc = "set_odr"
         => (linkup = 1 /\ Times(trace, "get_linkup_link_widths") = 0)
    /\ pc = "widths"
         => /\ linkup = 1
            /\ offline_disabled_reason = OPA_LINKDOWN_REASON_NONE
            /\ Times(trace, "get_linkup_link_widths") = 0
    /\ (pc = "idle" /\ linkup_arg # 0 /\ trace # << >>)
         => /\ linkup = 1
            /\ offline_disabled_reason = OPA_LINKDOWN_REASON_NONE
            /\ Times(trace, "get_linkup_link_widths") = 1
            /\ trace[Len(trace)].fn = "get_linkup_link_widths"
            /\ \A f \in NeighborReads : Times(trace, f) = 1
            /\ Times(trace, "udelay") = 1
            /\ AllBefore(trace, NeighborReads, "udelay")
    /\ \A i \in CallsOf(trace, "get_linkup_link_widths") : trace[i].linkup = 1
    /\ linkup_arg = 0 => Times(trace, "get_linkup_link_widths") = 0

\* an up transition has returned after its one query of the link widths
C16_Witness ==
    /\ pc = "idle" /\ linkup_arg # 0
    /\ Times(trace, "get_linkup_link_widths") = 1
    /\ Times(trace, "udelay") = 1
    /\ linkup = 1

\* the calls that stand in for the verify-capability interrupt, lines 104-106
VerifyCapCalls ==
    { "set_up_vau", "set_up_vl15", "assign_remote_cm_au_table" }

\* the argument each of them is given: dd->vau, dd->vl15_init, dd->vcu
VerifyCapArg(fn) ==
    IF fn = "set_up_vau" THEN vau
    ELSE IF fn = "set_up_vl15" THEN vl15_init
    ELSE vcu

\* C17: an up transition makes the three verify-capability calls, with the
\* device's own vau, vl15_init and vcu, exactly when quick_linkup is set or
\* the device is the functional simulator, and makes them before it reads
\* the neighbor registers; a down transition makes none of them.
C17_VerifyCapExactlyWhenSimulated ==
    /\ pc = "verify_cap"
         => \A f \in VerifyCapCalls \cup NeighborReads : Times(trace, f) = 0
    /\ \/ pc \in { "read_csr", "udelay", "set_mgmt", "if_mgmt", "pkey_write",
                   "pkey_push", "pkey_event", "set_linkup", "set_odr",
                   "widths" }
       \/ (pc = "idle" /\ linkup_arg # 0 /\ trace # << >>)
         => LET n == IF quick_linkup # 0 \/ icode = ICODE_FUNCTIONAL_SIMULATOR
                     THEN 1 ELSE 0
            IN  /\ \A f \in VerifyCapCalls :
                     /\ Times(trace, f) = n
                     /\ \A i \in CallsOf(trace, f) :
                          trace[i].arg = VerifyCapArg(f)
                /\ \A r \in NeighborReads :
                     AllBefore(trace, VerifyCapCalls, r)
                /\ AllBefore(trace, {"set_up_vau"}, "set_up_vl15")
                /\ AllBefore(trace, {"set_up_vl15"}, "assign_remote_cm_au_table")
    /\ linkup_arg = 0 => \A f \in VerifyCapCalls : Times(trace, f) = 0
    /\ pc \in { "clr_linkup", "clr_vls", "reset_credits", "freeze", "uevent",
                "clr_nn", "signal" }
         => \A f \in VerifyCapCalls : Times(trace, f) = 0

\* an up transition on the functional simulator, quick_linkup off, has
\* returned after the three calls and the neighbor reads
C17_Witness ==
    /\ pc = "idle" /\ linkup_arg # 0
    /\ quick_linkup = 0 /\ icode = ICODE_FUNCTIONAL_SIMULATOR
    /\ \A f \in VerifyCapCalls : Times(trace, f) = 1
    /\ \A r \in NeighborReads : Times(trace, r) = 1

\* C18: with a non-empty in-use bitmap and neither WAITING_RCV nor
\* WAITING_URG set, handle_user_interrupt makes no wake, leaves the urgent
\* counter, both flags and the receive-available enable as found, and goes
\* on to the unlock. So the wakes made never outnumber the times a consumer
\* set one of the two flags.
C18_NoFlagNoWake ==
    /\ \A c \in Callers :
         (uctxt_lock = c /\ irq_entry[c].in_use # {} /\ irq_entry[c].flags = {})
           => /\ irq_pc[c] \in {"bitmap", "tac_rcv", "tac_urg", "unlock"}
              /\ irq_trace[c] = << >>
              /\ event_flags = {}
              /\ urgent = irq_entry[c].urgent
              /\ rcvctrl_intravail = irq_entry[c].intravail
    /\ wakes["rcv"] <= polls["rcv"]
    /\ wakes["urg"] <= polls["urg"]
    /\ wakes["rcv"] + wakes["urg"] <= polls["rcv"] + polls["urg"]

\* after a consumer was woken once, a further interrupt finds the bitmap
\* non-empty and no flag set, and reaches the unlock
C18_Witness ==
    \E c \in Callers :
      /\ AtUnlock(c)
      /\ irq_entry[c].in_use # {}
      /\ irq_entry[c].flags = {}
      /\ polls["rcv"] + polls["urg"] >= 1
      /\ wakes["rcv"] + wakes["urg"] = polls["rcv"] + polls["urg"]

\* a step of handle_linkup_change: the call, a statement or the return
HandlerStep == pc # "idle" \/ pc' # "idle"

\* C19: no statement of handle_linkup_change removes the full management
\* key: pkeys[2] = FULL_MGMT_P_KEY stays so over every step of every call,
\* a down transition and an up transition with mgmt_allowed = 0 included.
\* The down transition also leaves mgmt_allowed and the neighbor fields as
\* the previous link set them.
C19_FullMgmtKeyNeverRemoved ==
    [][ /\ (HandlerStep /\ pkeys[2] = FULL_MGMT_P_KEY)
             => pkeys'[2] = FULL_MGMT_P_KEY
        /\ (pc \in { "clr_linkup", "clr_vls", "reset_credits", "freeze",
                     "uevent", "clr_nn", "signal" }
              \/ (pc = "check" /\ pc' = "clr_linkup"))
             => UNCHANGED <<mgmt_allowed, pkeys, neighbor_guid, neighbor_type,
                            neighbor_port_number, neighbor_fm_security>>
      ]_vars

\* the key installed by an earlier link is still there after a down
\* transition and a later up transition that was not allowed management
C19_Witness ==
    /\ pc = "idle" /\ linkup_arg # 0 /\ trace # << >>
    /\ linkup = 1
    /\ mgmt_allowed = 0
    /\ pkeys[2] = FULL_MGMT_P_KEY

\* C20: in every state, the states inside a transition included, a port
\* with ppd->linkup = 1 and mgmt_allowed set has pkeys[2] =
\* FULL_MGMT_P_KEY.
C20_UpAndAllowedHasFullKey ==
    (linkup = 1 /\ mgmt_allowed # 0) => pkeys[2] = FULL_MGMT_P_KEY

\* a port that is up with management allowed is inside its down
\* transition, the flag not yet cleared
C20_Witness ==
    /\ pc = "clr_linkup"
    /\ linkup = 1 /\ mgmt_allowed # 0
    /\ pkeys[2] = FULL_MGMT_P_KEY

====
